---- MODULE Spec2Model ----
(***************************************************************************)
(* rustack: a small stack-based language interpreter (src/main.rs).        *)
(*                                                                         *)
(* The machine state is the Vm struct (operand stack, bindings, stack of   *)
(* in-progress blocks).  A panic or abort of the process is recorded in    *)
(* err; once err is set no further step is taken.  Text is modelled as     *)
(* sequences of one-character strings, so that splitting a line into words *)
(* and classifying a word are computed as the code computes them.          *)
(* Standard output (puts, the debugging prints) is not part of the Vm and  *)
(* is not modelled.                                                        *)
(***************************************************************************)
EXTENDS Integers, Sequences, FiniteSets, TLC

(***************************************************************************)
(* Bounds of the exploration.                                              *)
(***************************************************************************)
\* number of lines the environment supplies after the scripted lines
MaxFree == 2
\* nesting of eval calls the process stack can hold before it overflows
MaxDepth == 6
\* number of machine snapshots kept in the history variable prevs
HistLen == 4

(***************************************************************************)
(* i32 arithmetic.                                                          *)
(***************************************************************************)
I32Max == 2147483647
I32Min == (-I32Max) - 1

\* a / b for b > 0, truncating toward zero (\div rounds down)
TruncDivPos(a, b) ==
  IF a >= 0 \/ a % b = 0 THEN a \div b ELSE (a \div b) + 1

\* Rust's integer division: truncates toward zero (b # 0, not I32Min / -1)
TruncDiv(a, b) ==
  IF b > 0 THEN TruncDivPos(a, b)
  ELSE IF b = I32Min THEN (IF a = I32Min THEN 1 ELSE 0)
  ELSE -TruncDivPos(a, -b)

AddFits(l, r) == ~(r > 0 /\ l > I32Max - r) /\ ~(r < 0 /\ l < I32Min - r)
SubFits(l, r) == ~(r < 0 /\ l > I32Max + r) /\ ~(r > 0 /\ l < I32Min + r)

\* l + r reduced modulo 2^32 into the i32 range
WrapAdd(l, r) ==
  IF AddFits(l, r) THEN l + r
  ELSE IF r > 0 THEN (l + I32Min) + (r + I32Min)
  ELSE ((l + I32Max) + 1) + ((r + I32Max) + 1)

\* l - r reduced modulo 2^32 into the i32 range
WrapSub(l, r) ==
  IF SubFits(l, r) THEN l - r
  ELSE IF r < 0 THEN (l + I32Min) + (I32Min - r)
  ELSE ((l + I32Max) + 1) + ((I32Max - r) + 1)

\* a * b reduced modulo 2^32 into the i32 range, for 0 <= a, b <= I32Max,
\* from 16-bit halves so that no intermediate value leaves the i32 range
MulLow32(a, b) ==
  LET ah == a \div 65536
      al == a % 65536
      bh == b \div 65536
      bl == b % 65536
      cross == (((ah * bl) % 65536) + ((al * bh) % 65536)) % 65536
      p == (al \div 256) * bl
      q == (al % 256) * bl
      low == ((p % 256) * 256) + q
      hi16 == (cross + (p \div 256) + (low \div 65536)) % 65536
  IN IF hi16 >= 32768
       THEN ((hi16 - 65536) * 65536) + (low % 65536)
       ELSE (hi16 * 65536) + (low % 65536)

\* l * r reduced modulo 2^32 into the i32 range
WrapMul(l, r) ==
  IF l = I32Min THEN (IF r % 2 = 1 THEN I32Min ELSE 0)
  ELSE IF r = I32Min THEN (IF l % 2 = 1 THEN I32Min ELSE 0)
  ELSE LET m == MulLow32(IF l < 0 THEN -l ELSE l, IF r < 0 THEN -r ELSE r)
       IN IF (l < 0) = (r < 0) THEN m ELSE WrapSub(0, m)

\* the exact product lies in the i32 range
MulFits(l, r) ==
  IF l = 0 \/ r = 0 THEN TRUE
  ELSE IF l > 0 /\ r > 0 THEN l <= I32Max \div r
  ELSE IF l < 0 /\ r < 0
    THEN l # I32Min /\ r # I32Min /\ (-l) <= I32Max \div (-r)
  ELSE IF l > 0 THEN r >= TruncDivPos(I32Min, l)
  ELSE l >= TruncDivPos(I32Min, r)

(***************************************************************************)
(* Value (enum Value) and the panics of its accessors.                     *)
(***************************************************************************)
Num(n)    == [t |-> "Num", n |-> n]
Op(s)     == [t |-> "Op", s |-> s]
Sym(s)    == [t |-> "Sym", s |-> s]
Block(b)  == [t |-> "Block", b |-> b]
Native(f) == [t |-> "Native", f |-> f]

\* the failure kinds, named after the panic that signals them
NoErr          == "none"
TypeMismatch   == "TypeMismatch"     \* panic!("Value is not a number/block/symbol")
StackUnderflow == "StackUnderflow"   \* Option::unwrap() on the None of an empty pop
MalformedBlock == "MalformedBlock"   \* expect("block stack is empty")
DivisionByZero == "DivisionByZero"   \* attempt to divide by zero
Overflow       == "Overflow"         \* attempt to add/subtract/multiply/divide with overflow
StackOverflow  == "StackOverflow"    \* the process stack is exhausted by nested eval calls

\* the process panics: the Vm is left as it is and err records the kind
Panic(vm, kind) == [vm EXCEPT !.err = kind]

Last(s)  == s[Len(s)]
Front(s) == SubSeq(s, 1, Len(s) - 1)

Push(vm, v)  == [vm EXCEPT !.stack = Append(@, v)]
PopStack(vm) == [vm EXCEPT !.stack = Front(@)]

as_num(v)   == v.t = "Num"
to_block(v) == v.t = "Block"
as_sym(v)   == v.t = "Sym"

(***************************************************************************)
(* Words.  A word is a sequence of characters.                             *)
(***************************************************************************)
wAdd   == <<"+">>
wSub   == <<"-">>
wMul   == <<"*">>
wDiv   == <<"/">>
wLt    == <<"<">>
wIf    == <<"i", "f">>
wDef   == <<"d", "e", "f">>
wPuts  == <<"p", "u", "t", "s">>
wDup   == <<"d", "u", "p">>
wExch  == <<"e", "x", "c", "h">>
wOpen  == <<"{">>
wClose == <<"}">>
\* the one-character word U+3000 (ideographic space)
wIdeographicSpace == <<"U+3000">>

DigitChars == <<"0", "1", "2", "3", "4", "5", "6", "7", "8", "9">>
IsDigit(c) == \E i \in 1..10 : DigitChars[i] = c
DigitVal(c) == (CHOOSE i \in 1..10 : DigitChars[i] = c) - 1

\* i32::from_str on the digits after the sign: checked accumulation, an
\* invalid digit or a value outside the i32 range is an Err
RECURSIVE ParseDigits(_, _, _)
ParseDigits(digits, acc, positive) ==
  IF digits = <<>> THEN [ok |-> TRUE, val |-> acc]
  ELSE IF ~IsDigit(Head(digits)) THEN [ok |-> FALSE, val |-> 0]
  ELSE LET d == DigitVal(Head(digits))
       IN IF positive
            THEN IF acc > (I32Max - d) \div 10
                   THEN [ok |-> FALSE, val |-> 0]
                   ELSE ParseDigits(Tail(digits), acc * 10 + d, positive)
            ELSE IF acc < (I32Min + d + 9) \div 10
                   THEN [ok |-> FALSE, val |-> 0]
                   ELSE ParseDigits(Tail(digits), acc * 10 - d, positive)

\* word.parse::<i32>()
ParseI32(word) ==
  IF word = <<>> THEN [ok |-> FALSE, val |-> 0]
  ELSE IF Head(word) \in {"+", "-"}
    THEN IF Tail(word) = <<>> THEN [ok |-> FALSE, val |-> 0]
         ELSE ParseDigits(Tail(word), 0, Head(word) = "+")
  ELSE ParseDigits(word, 0, TRUE)

\* the classification at the end of parse_word
Classify(word) ==
  LET num == ParseI32(word)
  IN IF num.ok THEN Num(num.val)
     ELSE IF Head(word) = "/" THEN Sym(Tail(word))
     ELSE Op(word)

\* line.split(" "): the words are the stretches between consecutive
\* separators, so n separators give n + 1 words, empty ones included
split(line) ==
  LET seps == {i \in 1..Len(line) : line[i] = " "}
      n == Cardinality(seps)
      at(k) == IF k = 0 THEN 0
               ELSE IF k = n + 1 THEN Len(line) + 1
               ELSE CHOOSE i \in seps : Cardinality({j \in seps : j < i}) = k - 1
  IN [k \in 1..(n + 1) |-> SubSeq(line, at(k - 1) + 1, at(k) - 1)]

(***************************************************************************)
(* Vm                                                                      *)
(***************************************************************************)
NativeOf(name) ==
  CASE name = wAdd  -> "add"
    [] name = wSub  -> "sub"
    [] name = wMul  -> "mul"
    [] name = wDiv  -> "div"
    [] name = wLt   -> "lt"
    [] name = wIf   -> "op_if"
    [] name = wDef  -> "op_def"
    [] name = wPuts -> "puts"
    [] name = wDup  -> "dup"
    [] name = wExch -> "exch"

BuiltinNames == {wAdd, wSub, wMul, wDiv, wLt, wIf, wDef, wPuts, wDup, wExch}

Vm_new ==
  [stack  |-> <<>>,
   vars   |-> [name \in BuiltinNames |-> Native(NativeOf(name))],
   blocks |-> <<>>,
   err    |-> NoErr]

\* vm.vars.insert(sym, value)
Insert(vars, sym, value) ==
  [k \in DOMAIN vars \cup {sym} |-> IF k = sym THEN value ELSE vars[k]]

(***************************************************************************)
(* State.                                                                  *)
(***************************************************************************)
VARIABLES
  stack,            \* vm.stack
  vars,             \* vm.vars
  blocks,           \* vm.blocks
  err,              \* NoErr, or the kind of the panic that ended the process
  overflow_checks,  \* the build: TRUE panics on arithmetic overflow (debug), FALSE wraps (release)
  script,           \* lines of the source not yet read
  nfree,            \* number of further lines supplied after the script
  words,            \* words of the current line not yet processed
  read,             \* history: every line read so far
  trace,            \* history: every word handed to parse_word so far
  prevs             \* history: the Vm before each of the last HistLen words

allvars == <<stack, vars, blocks, err, overflow_checks, script, nfree, words, read, trace, prevs>>

(***************************************************************************)
(* Native operators.  Each pops with .pop().unwrap() (StackUnderflow on an *)
(* empty stack) and then checks the variant (TypeMismatch).                *)
(***************************************************************************)
\* Arith that saturates where the exact result leaves the i32 range:
\* lhs.saturating_add(rhs) and the like
Arith_saturating(name, lhs, rhs, vm) ==
  CASE name = "add" ->
         IF AddFits(lhs, rhs) THEN Push(vm, Num(lhs + rhs))
         ELSE IF overflow_checks THEN Panic(vm, Overflow)
         ELSE Push(vm, Num(IF rhs > 0 THEN I32Max ELSE I32Min))
    [] name = "sub" ->
         IF SubFits(lhs, rhs) THEN Push(vm, Num(lhs - rhs))
         ELSE IF overflow_checks THEN Panic(vm, Overflow)
         ELSE Push(vm, Num(IF rhs < 0 THEN I32Max ELSE I32Min))
    [] name = "mul" ->
         IF MulFits(lhs, rhs) THEN Push(vm, Num(lhs * rhs))
         ELSE IF overflow_checks THEN Panic(vm, Overflow)
         ELSE Push(vm, Num(IF (lhs < 0) = (rhs < 0) THEN I32Max ELSE I32Min))
    [] name = "div" ->
         IF rhs = 0 THEN Panic(vm, DivisionByZero)
         ELSE IF lhs = I32Min /\ rhs = -1 THEN Panic(vm, Overflow)
         ELSE Push(vm, Num(TruncDiv(lhs, rhs)))
    [] name = "lt" ->
         Push(vm, Num(IF lhs < rhs THEN 1 ELSE 0))

\* Arith whose comparison is three-valued: lhs.cmp(&rhs) as i32
Arith_cmp(name, lhs, rhs, vm) ==
  CASE name = "add" ->
         IF AddFits(lhs, rhs) THEN Push(vm, Num(lhs + rhs))
         ELSE IF overflow_checks THEN Panic(vm, Overflow)
         ELSE Push(vm, Num(WrapAdd(lhs, rhs)))
    [] name = "sub" ->
         IF SubFits(lhs, rhs) THEN Push(vm, Num(lhs - rhs))
         ELSE IF overflow_checks THEN Panic(vm, Overflow)
         ELSE Push(vm, Num(WrapSub(lhs, rhs)))
    [] name = "mul" ->
         IF MulFits(lhs, rhs) THEN Push(vm, Num(lhs * rhs))
         ELSE IF overflow_checks THEN Panic(vm, Overflow)
         ELSE Push(vm, Num(WrapMul(lhs, rhs)))
    [] name = "div" ->
         IF rhs = 0 THEN Panic(vm, DivisionByZero)
         ELSE IF lhs = I32Min /\ rhs = -1 THEN Panic(vm, Overflow)
         ELSE Push(vm, Num(TruncDiv(lhs, rhs)))
    [] name = "lt" ->
         Push(vm, Num(IF lhs < rhs THEN 1 ELSE IF lhs = rhs THEN 0 ELSE -1))

\* (lhs $op rhs) as i32, after both operands have been popped
Arith(name, lhs, rhs, vm) ==
  CASE name = "add" ->
         IF AddFits(lhs, rhs) THEN Push(vm, Num(lhs + rhs))
         ELSE IF overflow_checks THEN Panic(vm, Overflow)
         ELSE Push(vm, Num(WrapAdd(lhs, rhs)))
    [] name = "sub" ->
         IF SubFits(lhs, rhs) THEN Push(vm, Num(lhs - rhs))
         ELSE IF overflow_checks THEN Panic(vm, Overflow)
         ELSE Push(vm, Num(WrapSub(lhs, rhs)))
    [] name = "mul" ->
         IF MulFits(lhs, rhs) THEN Push(vm, Num(lhs * rhs))
         ELSE IF overflow_checks THEN Panic(vm, Overflow)
         ELSE Push(vm, Num(WrapMul(lhs, rhs)))
    [] name = "div" ->
         IF rhs = 0 THEN Panic(vm, DivisionByZero)
         ELSE IF lhs = I32Min /\ rhs = -1 THEN Panic(vm, Overflow)
         ELSE Push(vm, Num(TruncDiv(lhs, rhs)))
    [] name = "lt" ->
         Push(vm, Num(IF lhs < rhs THEN 1 ELSE 0))

\* impl_op with the operands taken in the wrong order: rhs $op lhs
impl_op_swapped(name, vm) ==
  IF vm.stack = <<>> THEN Panic(vm, StackUnderflow)
  ELSE LET rhs == Last(vm.stack)
           vm1 == PopStack(vm)
       IN IF ~as_num(rhs) THEN Panic(vm1, TypeMismatch)
          ELSE IF vm1.stack = <<>> THEN Panic(vm1, StackUnderflow)
          ELSE LET lhs == Last(vm1.stack)
                   vm2 == PopStack(vm1)
               IN IF ~as_num(lhs) THEN Panic(vm2, TypeMismatch)
                  ELSE Arith(name, rhs.n, lhs.n, vm2)

\* impl_op!(name, op)
impl_op(name, vm) ==
  IF vm.stack = <<>> THEN Panic(vm, StackUnderflow)
  ELSE LET rhs == Last(vm.stack)
           vm1 == PopStack(vm)
       IN IF ~as_num(rhs) THEN Panic(vm1, TypeMismatch)
          ELSE IF vm1.stack = <<>> THEN Panic(vm1, StackUnderflow)
          ELSE LET lhs == Last(vm1.stack)
                   vm2 == PopStack(vm1)
               IN IF ~as_num(lhs) THEN Panic(vm2, TypeMismatch)
                  ELSE Arith(name, lhs.n, rhs.n, vm2)

\* dup that does nothing on an empty stack: if let Some(value) = vm.stack.last()
dup_lenient(vm) ==
  IF vm.stack = <<>> THEN vm
  ELSE Push(vm, Last(vm.stack))

dup(vm) ==
  IF vm.stack = <<>> THEN Panic(vm, StackUnderflow)
  ELSE Push(vm, Last(vm.stack))

\* exch that pushes the two values back in the order it popped them from:
\* push(second) before push(last)
exch_sameOrder(vm) ==
  IF vm.stack = <<>> THEN Panic(vm, StackUnderflow)
  ELSE LET last == Last(vm.stack)
           vm1  == PopStack(vm)
       IN IF vm1.stack = <<>> THEN Panic(vm1, StackUnderflow)
          ELSE LET second == Last(vm1.stack)
               IN Push(Push(PopStack(vm1), second), last)

exch(vm) ==
  IF vm.stack = <<>> THEN Panic(vm, StackUnderflow)
  ELSE LET last == Last(vm.stack)
           vm1  == PopStack(vm)
       IN IF vm1.stack = <<>> THEN Panic(vm1, StackUnderflow)
          ELSE LET second == Last(vm1.stack)
               IN Push(Push(PopStack(vm1), last), second)

\* the popped value is printed, which changes nothing in the Vm
puts(vm) ==
  IF vm.stack = <<>> THEN Panic(vm, StackUnderflow)
  ELSE PopStack(vm)

(***************************************************************************)
(* eval, and the operators that call back into it.  d is the number of     *)
(* nested eval calls the process stack can still hold.                     *)
(***************************************************************************)
RECURSIVE eval(_, _, _)

\* the loop over a block left after its first element
evalEach_first(block, vm, d) ==
  IF block = <<>> \/ vm.err # NoErr THEN vm
  ELSE eval(Head(block), vm, d)

\* for code in block { eval(code, vm) }: a panic ends the loop
RECURSIVE evalEach(_, _, _)
evalEach(block, vm, d) ==
  IF block = <<>> \/ vm.err # NoErr THEN vm
  ELSE evalEach(Tail(block), eval(Head(block), vm, d), d)

\* op_if with the test cond_result > 0 in place of cond_result != 0
op_if_positive(vm, d) ==
  IF Len(vm.stack) < 3 THEN Panic(vm, StackUnderflow)
  ELSE LET false_branch == vm.stack[Len(vm.stack)]
           true_branch  == vm.stack[Len(vm.stack) - 1]
           cond         == vm.stack[Len(vm.stack) - 2]
           vm3 == [vm EXCEPT !.stack = SubSeq(@, 1, Len(@) - 3)]
       IN IF ~(to_block(false_branch) /\ to_block(true_branch) /\ to_block(cond))
            THEN Panic(vm3, TypeMismatch)
          ELSE LET vm4 == evalEach(cond.b, vm3, d)
               IN IF vm4.err # NoErr THEN vm4
                  ELSE IF vm4.stack = <<>> THEN Panic(vm4, StackUnderflow)
                  ELSE IF ~as_num(Last(vm4.stack)) THEN Panic(PopStack(vm4), TypeMismatch)
                  ELSE IF Last(vm4.stack).n > 0
                    THEN evalEach(true_branch.b, PopStack(vm4), d)
                    ELSE evalEach(false_branch.b, PopStack(vm4), d)

\* op_if as a loop: after the true branch the three Blocks are put back and
\* if is evaluated again
op_if_repeat(vm, d) ==
  IF Len(vm.stack) < 3 THEN Panic(vm, StackUnderflow)
  ELSE LET false_branch == vm.stack[Len(vm.stack)]
           true_branch  == vm.stack[Len(vm.stack) - 1]
           cond         == vm.stack[Len(vm.stack) - 2]
           vm3 == [vm EXCEPT !.stack = SubSeq(@, 1, Len(@) - 3)]
       IN IF ~(to_block(false_branch) /\ to_block(true_branch) /\ to_block(cond))
            THEN Panic(vm3, TypeMismatch)
          ELSE LET vm4 == evalEach(cond.b, vm3, d)
               IN IF vm4.err # NoErr THEN vm4
                  ELSE IF vm4.stack = <<>> THEN Panic(vm4, StackUnderflow)
                  ELSE IF ~as_num(Last(vm4.stack)) THEN Panic(PopStack(vm4), TypeMismatch)
                  ELSE IF Last(vm4.stack).n # 0
                    THEN LET vm6 == evalEach(true_branch.b, PopStack(vm4), d)
                         IN IF vm6.err # NoErr THEN vm6
                            ELSE eval(Op(wIf),
                                      [vm6 EXCEPT !.stack = @ \o <<cond, true_branch, false_branch>>],
                                      d)
                    ELSE evalEach(false_branch.b, PopStack(vm4), d)

op_if(vm, d) ==
  IF vm.stack = <<>> THEN Panic(vm, StackUnderflow)
  ELSE LET false_branch == Last(vm.stack)
           vm1 == PopStack(vm)
       IN IF ~to_block(false_branch) THEN Panic(vm1, TypeMismatch)
          ELSE IF vm1.stack = <<>> THEN Panic(vm1, StackUnderflow)
          ELSE LET true_branch == Last(vm1.stack)
                   vm2 == PopStack(vm1)
               IN IF ~to_block(true_branch) THEN Panic(vm2, TypeMismatch)
                  ELSE IF vm2.stack = <<>> THEN Panic(vm2, StackUnderflow)
                  ELSE LET cond == Last(vm2.stack)
                           vm3  == PopStack(vm2)
                       IN IF ~to_block(cond) THEN Panic(vm3, TypeMismatch)
                          ELSE LET vm4 == evalEach(cond.b, vm3, d)
                               IN IF vm4.err # NoErr THEN vm4
                                  ELSE IF vm4.stack = <<>> THEN Panic(vm4, StackUnderflow)
                                  ELSE LET cond_result == Last(vm4.stack)
                                           vm5 == PopStack(vm4)
                                       IN IF ~as_num(cond_result) THEN Panic(vm5, TypeMismatch)
                                          ELSE IF cond_result.n # 0
                                                 THEN evalEach(true_branch.b, vm5, d)
                                                 ELSE evalEach(false_branch.b, vm5, d)

\* op_def that reads the symbol with last() and leaves it on the stack
op_def_keepSym(vm, d) ==
  IF vm.stack = <<>> THEN Panic(vm, StackUnderflow)
  ELSE LET vm1 == eval(Last(vm.stack), PopStack(vm), d)
       IN IF vm1.err # NoErr THEN vm1
          ELSE IF vm1.stack = <<>> THEN Panic(vm1, StackUnderflow)
          ELSE LET vm2 == PopStack(vm1)
               IN IF vm2.stack = <<>> THEN Panic(vm2, StackUnderflow)
                  ELSE IF ~as_sym(Last(vm2.stack)) THEN Panic(vm2, TypeMismatch)
                  ELSE [vm2 EXCEPT !.vars = Insert(@, Last(vm2.stack).s, Last(vm1.stack))]

\* op_def that binds nothing and returns when the name is not a Symbol
op_def_noSymCheck(vm, d) ==
  IF vm.stack = <<>> THEN Panic(vm, StackUnderflow)
  ELSE LET vm1 == eval(Last(vm.stack), PopStack(vm), d)
       IN IF vm1.err # NoErr THEN vm1
          ELSE IF vm1.stack = <<>> THEN Panic(vm1, StackUnderflow)
          ELSE LET value == Last(vm1.stack)
                   vm2   == PopStack(vm1)
               IN IF vm2.stack = <<>> THEN Panic(vm2, StackUnderflow)
                  ELSE LET sym == Last(vm2.stack)
                           vm3 == PopStack(vm2)
                       IN IF ~as_sym(sym) THEN vm3
                          ELSE [vm3 EXCEPT !.vars = Insert(@, sym.s, value)]

\* op_def that keeps an earlier binding of the name: entry(sym).or_insert(value)
op_def_orInsert(vm, d) ==
  IF vm.stack = <<>> THEN Panic(vm, StackUnderflow)
  ELSE LET vm1 == eval(Last(vm.stack), PopStack(vm), d)
       IN IF vm1.err # NoErr THEN vm1
          ELSE IF vm1.stack = <<>> THEN Panic(vm1, StackUnderflow)
          ELSE LET value == Last(vm1.stack)
                   vm2   == PopStack(vm1)
               IN IF vm2.stack = <<>> THEN Panic(vm2, StackUnderflow)
                  ELSE LET sym == Last(vm2.stack)
                           vm3 == PopStack(vm2)
                       IN IF ~as_sym(sym) THEN Panic(vm3, TypeMismatch)
                          ELSE IF sym.s \in DOMAIN vm3.vars THEN vm3
                          ELSE [vm3 EXCEPT !.vars = Insert(@, sym.s, value)]

op_def(vm, d) ==
  IF vm.stack = <<>> THEN Panic(vm, StackUnderflow)
  ELSE LET vm1 == eval(Last(vm.stack), PopStack(vm), d)
       IN IF vm1.err # NoErr THEN vm1
          ELSE IF vm1.stack = <<>> THEN Panic(vm1, StackUnderflow)
          ELSE LET value == Last(vm1.stack)
                   vm2   == PopStack(vm1)
               IN IF vm2.stack = <<>> THEN Panic(vm2, StackUnderflow)
                  ELSE LET sym == Last(vm2.stack)
                           vm3 == PopStack(vm2)
                       IN IF ~as_sym(sym) THEN Panic(vm3, TypeMismatch)
                          ELSE [vm3 EXCEPT !.vars = Insert(@, sym.s, value)]

\* op.0(vm): the call through the function pointer of a NativeOp
CallNative(f, vm, d) ==
  CASE f \in {"add", "sub", "mul", "div", "lt"} -> impl_op(f, vm)
    [] f = "op_if"  -> op_if(vm, d)
    [] f = "op_def" -> op_def(vm, d)
    [] f = "puts"   -> puts(vm)
    [] f = "dup"    -> dup(vm)
    [] f = "exch"   -> exch(vm)

\* eval that appends to the outermost in-progress block: vm.blocks.first_mut()
eval_appendOuter(code, vm, d) ==
  IF d = 0 THEN Panic(vm, StackOverflow)
  ELSE IF vm.blocks # <<>>
    THEN [vm EXCEPT !.blocks[1] = Append(@, code)]
  ELSE IF code.t # "Op" THEN Push(vm, code)
  ELSE IF code.s \in DOMAIN vm.vars
    THEN LET val == vm.vars[code.s]
         IN CASE val.t = "Block"  -> evalEach(val.b, vm, d - 1)
              [] val.t = "Native" -> CallNative(val.f, vm, d - 1)
              [] OTHER            -> Push(vm, val)
  ELSE vm

\* eval that pushes an Operator with no binding as it is:
\* else { vm.stack.push(Value::Op(op)) }
eval_pushUnbound(code, vm, d) ==
  IF d = 0 THEN Panic(vm, StackOverflow)
  ELSE IF vm.blocks # <<>>
    THEN [vm EXCEPT !.blocks[Len(vm.blocks)] = Append(@, code)]
  ELSE IF code.t # "Op" THEN Push(vm, code)
  ELSE IF code.s \in DOMAIN vm.vars
    THEN LET val == vm.vars[code.s]
         IN CASE val.t = "Block"  -> evalEach(val.b, vm, d - 1)
              [] val.t = "Native" -> CallNative(val.f, vm, d - 1)
              [] OTHER            -> Push(vm, val)
  ELSE Push(vm, code)

eval(code, vm, d) ==
  IF d = 0 THEN Panic(vm, StackOverflow)
  ELSE IF vm.blocks # <<>>
    THEN [vm EXCEPT !.blocks[Len(vm.blocks)] = Append(@, code)]
  ELSE IF code.t # "Op" THEN Push(vm, code)
  ELSE IF code.s \in DOMAIN vm.vars
    THEN LET val == vm.vars[code.s]
         IN CASE val.t = "Block"  -> evalEach(val.b, vm, d - 1)
              [] val.t = "Native" -> CallNative(val.f, vm, d - 1)
              [] OTHER            -> Push(vm, val)
  ELSE vm

\* parse_word whose block-close pushes the Block onto the operand stack
\* itself instead of handing it to eval
parse_word_pushClose(word, vm) ==
  IF word = <<>> THEN vm
  ELSE IF word = wOpen THEN [vm EXCEPT !.blocks = Append(@, <<>>)]
  ELSE IF word = wClose
    THEN IF vm.blocks = <<>> THEN Panic(vm, MalformedBlock)
         ELSE Push([vm EXCEPT !.blocks = Front(@)], Block(Last(vm.blocks)))
  ELSE IF word = wIdeographicSpace THEN vm
  ELSE eval(Classify(word), vm, MaxDepth)

\* parse_word whose block-close pops with unwrap(), as every other pop does
parse_word_unwrap(word, vm) ==
  IF word = <<>> THEN vm
  ELSE IF word = wOpen THEN [vm EXCEPT !.blocks = Append(@, <<>>)]
  ELSE IF word = wClose
    THEN IF vm.blocks = <<>> THEN Panic(vm, StackUnderflow)
         ELSE eval(Block(Last(vm.blocks)), [vm EXCEPT !.blocks = Front(@)], MaxDepth)
  ELSE IF word = wIdeographicSpace THEN vm
  ELSE eval(Classify(word), vm, MaxDepth)

\* parse_word without the is_empty test: the empty word parses as no number,
\* does not start with "/", and is evaluated as the Operator ""
parse_word_noEmptyTest(word, vm) ==
  IF word = wOpen THEN [vm EXCEPT !.blocks = Append(@, <<>>)]
  ELSE IF word = wClose
    THEN IF vm.blocks = <<>> THEN Panic(vm, MalformedBlock)
         ELSE eval(Block(Last(vm.blocks)), [vm EXCEPT !.blocks = Front(@)], MaxDepth)
  ELSE IF word = wIdeographicSpace THEN vm
  ELSE IF word = <<>> THEN eval(Op(word), vm, MaxDepth)
  ELSE eval(Classify(word), vm, MaxDepth)

\* parse_word whose block-close reads the innermost sequence with
\* last().cloned() and leaves it on the block stack
parse_word_closeKeeps(word, vm) ==
  IF word = <<>> THEN vm
  ELSE IF word = wOpen THEN [vm EXCEPT !.blocks = Append(@, <<>>)]
  ELSE IF word = wClose
    THEN IF vm.blocks = <<>> THEN Panic(vm, MalformedBlock)
         ELSE eval(Block(Last(vm.blocks)), vm, MaxDepth)
  ELSE IF word = wIdeographicSpace THEN vm
  ELSE eval(Classify(word), vm, MaxDepth)

parse_word(word, vm) ==
  IF word = <<>> THEN vm
  ELSE IF word = wOpen THEN [vm EXCEPT !.blocks = Append(@, <<>>)]
  ELSE IF word = wClose
    THEN IF vm.blocks = <<>> THEN Panic(vm, MalformedBlock)
         ELSE eval(Block(Last(vm.blocks)), [vm EXCEPT !.blocks = Front(@)], MaxDepth)
  ELSE IF word = wIdeographicSpace THEN vm
  ELSE eval(Classify(word), vm, MaxDepth)

(***************************************************************************)
(* Input.  The source is a sequence of lines; the lines of the chosen      *)
(* script are read first (the inputs of the tests among them), then up to  *)
(* MaxFree further lines drawn from FreeLines.                             *)
(***************************************************************************)
w0    == <<"0">>
w1    == <<"1">>
w2    == <<"2">>
w3    == <<"3">>
w4    == <<"4">>
w5    == <<"5">>
w6    == <<"6">>
w7    == <<"7">>
w10   == <<"1", "0">>
w20   == <<"2", "0">>
wNeg1 == <<"-", "1">>
wI32Max == <<"2", "1", "4", "7", "4", "8", "3", "6", "4", "7">>
wI32Min == <<"-", "2", "1", "4", "7", "4", "8", "3", "6", "4", "8">>
wX    == <<"x">>
wY    == <<"y">>
wF    == <<"f">>
wDouble == <<"d", "o", "u", "b", "l", "e">>
Slash(name) == <<"/">> \o name

\* the words joined by single spaces
RECURSIVE Join(_)
Join(ws) ==
  IF ws = <<>> THEN <<>>
  ELSE IF Len(ws) = 1 THEN ws[1]
  ELSE ws[1] \o <<" ">> \o Join(Tail(ws))

Scripts ==
  { <<>>,
    \* test_group
    << Join(<<w1, w2, wAdd, wOpen, w3, w4, wMul, wClose>>) >>,
    \* test_if_false, test_if_true
    << Join(<<wOpen, w0, wClose, wOpen, w1, wClose, wOpen, wNeg1, wClose, wIf>>) >>,
    << Join(<<wOpen, w1, wClose, wOpen, w1, wClose, wOpen, wNeg1, wClose, wIf>>) >>,
    \* test_multiline
    << <<>>,
       Join(<<Slash(wX), w10, wDef>>),
       Join(<<Slash(wY), w20, wDef>>),
       <<>>,
       Join(<<wOpen, wX, wY, wLt, wClose>>),
       Join(<<wOpen, wX, wClose>>),
       Join(<<wOpen, wY, wClose>>),
       wIf,
       <<>> >>,
    \* test_function_definition
    << <<>>,
       Join(<<Slash(wDouble), wOpen, w2, wMul, wClose, wDef>>),
       Join(<<w10, wDouble>>),
       <<>> >>,
    \* nested blocks over two lines, with repeated and trailing separators
    << Join(<<wOpen, w1, wOpen, w2, wOpen, wClose, w3, wClose>>),
       Join(<<<<>>, wX, <<>>, wClose, <<>>>>) >>,
    \* a block that invokes itself
    << Join(<<Slash(wF), wOpen, w1, wF, wClose, wDef>>), wF >>,
    \* operands of an if whose condition leaves a negative Number on top of another
    << Join(<<w5, wOpen, w7, wNeg1, wClose, wOpen, w1, wClose, wOpen, w2, wClose>>) >>,
    \* operands of an if whose condition pushes nothing
    << Join(<<wOpen, wClose, wOpen, w1, wClose, wOpen, w2, wClose>>) >>,
    \* binding round-trip, and a built-in name rebound
    << Join(<<Slash(wX), w10, wDef, wX>>) >>,
    << Join(<<Slash(wAdd), w5, wDef, wAdd, w1, w2>>) >>,
    \* operands at the ends of the i32 range
    << Join(<<wI32Max, w2>>) >>,
    << Join(<<wI32Min, wNeg1>>) >>,
    \* operands of a division
    << Join(<<w7, w0, wNeg1, w2>>) >>,
    \* an open block
    << Join(<<w3, wOpen, Slash(wX)>>) >>,
    \* operands of an if whose condition leaves a Symbol
    << Join(<<wOpen, Slash(wX), wClose, wOpen, w1, wClose, wOpen, w2, wClose>>) >>,
    \* an if inside the true branch of an if
    << Join(<<wOpen, w1, wClose,
              wOpen, wOpen, w0, wClose, wOpen, w3, wClose, wOpen, w4, wClose, wIf, wClose,
              wOpen, w5, wClose, wIf>>) >>,
    \* a Block that copies itself with dup and runs the copy with if
    << Join(<<wOpen, wDup, wDup, wDup, wIf, wClose, wDup, wDup, wDup, wIf>>) >> }

FreeLines ==
  { w1, wNeg1, wAdd, wSub, wMul, wLt, wDiv, wDup, wExch, wIf, wDef, wPuts,
    wX, Slash(wX), wOpen, wClose, wIdeographicSpace,
    Join(<<<<>>, w2, <<>>, <<>>>>) }

(***************************************************************************)
(* The session: parse_batch / parse_interactive.                           *)
(***************************************************************************)
Cur == [stack |-> stack, vars |-> vars, blocks |-> blocks, err |-> err]

Init ==
  /\ stack = Vm_new.stack
  /\ vars = Vm_new.vars
  /\ blocks = Vm_new.blocks
  /\ err = Vm_new.err
  /\ overflow_checks \in BOOLEAN
  /\ script \in Scripts
  /\ nfree = 0
  /\ words = <<>>
  /\ read = <<>>
  /\ trace = <<>>
  /\ prevs = <<>>

\* the next line of the source is read and split into words
ReadScriptLine ==
  /\ err = NoErr
  /\ words = <<>>
  /\ script # <<>>
  /\ words' = split(Head(script))
  /\ read' = Append(read, Head(script))
  /\ script' = Tail(script)
  /\ UNCHANGED <<stack, vars, blocks, err, overflow_checks, nfree, trace, prevs>>

ReadFreeLine ==
  /\ err = NoErr
  /\ words = <<>>
  /\ script = <<>>
  /\ nfree < MaxFree
  /\ \E line \in FreeLines :
       /\ words' = split(line)
       /\ read' = Append(read, line)
  /\ nfree' = nfree + 1
  /\ UNCHANGED <<stack, vars, blocks, err, overflow_checks, script, trace, prevs>>

\* one iteration of the loop over the words of the line
ProcessWord ==
  /\ err = NoErr
  /\ words # <<>>
  /\ LET vm == parse_word(Head(words), Cur)
     IN /\ stack' = vm.stack
        /\ vars' = vm.vars
        /\ blocks' = vm.blocks
        /\ err' = vm.err
  /\ words' = Tail(words)
  /\ trace' = Append(trace, Head(words))
  /\ prevs' = (IF Len(prevs) < HistLen THEN prevs ELSE Tail(prevs)) \o <<Cur>>
  /\ UNCHANGED <<overflow_checks, script, nfree, read>>

Next == ReadScriptLine \/ ReadFreeLine \/ ProcessWord

Spec == Init /\ [][Next]_allvars

(***************************************************************************)
(* Reading the history.                                                    *)
(***************************************************************************)
\* the k-th most recent word handed to parse_word, and the Vm before it
LastWord(k) == trace[Len(trace) - k + 1]
Before(k)   == prevs[Len(prevs) - k + 1]
Ran(k)      == Len(prevs) >= k

\* the process is running and no block is being accumulated
Ready(vm) == vm.err = NoErr /\ vm.blocks = <<>>

\* the name still has its built-in binding
IsBuiltin(vm, name) == name \in DOMAIN vm.vars /\ vm.vars[name] = Native(NativeOf(name))

IsNumWord(w) == w # <<>> /\ ParseI32(w).ok
\* a word that parse_word hands to eval as a value
IsValueWord(w) == w \notin {<<>>, wOpen, wClose, wIdeographicSpace}
\* a word that classifies as an Operator
IsOpWord(w) == IsValueWord(w) /\ Classify(w).t = "Op"

\* the failure kind the specification names for an unbound name
UndefinedName == "UndefinedName"

(***************************************************************************)
(* C1  a b op for op in + - *                                              *)
(***************************************************************************)
ExactFits(op, a, b) ==
  CASE op = wAdd -> AddFits(a, b)
    [] op = wSub -> SubFits(a, b)
    [] op = wMul -> MulFits(a, b)

Exact(op, a, b) ==
  CASE op = wAdd -> a + b
    [] op = wSub -> a - b
    [] op = wMul -> a * b

\* the last three words were a b op, read at block depth zero with op naming
\* its built-in, and the exact result fits in an i32
C1_Case ==
  /\ Ran(3)
  /\ IsNumWord(LastWord(3))
  /\ IsNumWord(LastWord(2))
  /\ LastWord(1) \in {wAdd, wSub, wMul}
  /\ Ready(Before(3))
  /\ IsBuiltin(Before(3), LastWord(1))
  /\ ExactFits(LastWord(1), ParseI32(LastWord(3)).val, ParseI32(LastWord(2)).val)

\* C1: the words a b op (op one of + - *, exact result within i32) at block
\* depth zero on a stack S leave S followed by the one Number a op b, with a
\* as lhs and b as rhs, and leave the bindings unchanged.
C1_Arithmetic ==
  C1_Case =>
    /\ stack = Append(Before(3).stack,
                      Num(Exact(LastWord(1), ParseI32(LastWord(3)).val,
                                ParseI32(LastWord(2)).val)))
    /\ vars = Before(3).vars
    /\ blocks = <<>>
    /\ err = NoErr

\* a subtraction of two different Numbers on a non-empty stack has run
C1_Witness ==
  /\ C1_Case
  /\ LastWord(1) = wSub
  /\ LastWord(3) # LastWord(2)
  /\ Before(3).stack # <<>>

(***************************************************************************)
(* C2  a b /                                                               *)
(***************************************************************************)
\* C2: the words a b / at block depth zero pop both operands and push the
\* truncating quotient of a by b when b is nonzero, and fail with
\* DivisionByZero, pushing no value, when b is zero.
C2_Division ==
  ( /\ Ran(3)
    /\ IsNumWord(LastWord(3))
    /\ IsNumWord(LastWord(2))
    /\ LastWord(1) = wDiv
    /\ Ready(Before(3))
    /\ IsBuiltin(Before(3), wDiv) ) =>
    LET a == ParseI32(LastWord(3)).val
        b == ParseI32(LastWord(2)).val
    IN IF b = 0
         THEN err = DivisionByZero /\ stack = Before(3).stack
         ELSE /\ ~(a = I32Min /\ b = -1)
              /\ err = NoErr
              /\ stack = Append(Before(3).stack, Num(TruncDiv(a, b)))

(***************************************************************************)
(* C3  block-close                                                         *)
(***************************************************************************)
\* nesting depth after the first k words, counted from the markers
MarkerDepth(k) ==
  Cardinality({j \in 1..k : trace[j] = wOpen})
    - Cardinality({j \in 1..k : trace[j] = wClose})

\* the close marker matching the open marker at position i
MatchingClose(i) ==
  CHOOSE m \in (i + 1)..Len(trace) :
    /\ trace[m] = wClose
    /\ MarkerDepth(m) = MarkerDepth(i - 1)
    /\ \A k \in (i + 1)..(m - 1) :
         ~(trace[k] = wClose /\ MarkerDepth(k) = MarkerDepth(i - 1))

\* the open marker matching the close marker at position n
MatchingOpen(n) ==
  CHOOSE i \in 1..(n - 1) :
    /\ trace[i] = wOpen
    /\ MarkerDepth(i - 1) = MarkerDepth(n)
    /\ \A k \in (i + 1)..(n - 1) :
         ~(trace[k] = wOpen /\ MarkerDepth(k - 1) = MarkerDepth(n))

\* the values of the words between the markers at i and n, read off the
\* words: one value per word, one Block per inner group
RECURSIVE GroupValues(_, _)
GroupValues(i, n) ==
  LET items == {j \in (i + 1)..(n - 1) :
                  \/ IsValueWord(trace[j]) /\ MarkerDepth(j) = MarkerDepth(i)
                  \/ trace[j] = wOpen /\ MarkerDepth(j - 1) = MarkerDepth(i)}
      item(k) == CHOOSE j \in items : Cardinality({h \in items : h < j}) = k - 1
  IN [k \in 1..Cardinality(items) |->
        IF trace[item(k)] = wOpen
          THEN Block(GroupValues(item(k), MatchingClose(item(k))))
          ELSE Classify(trace[item(k)])]

C3_Case == Ran(1) /\ LastWord(1) = wClose /\ Before(1).err = NoErr /\ Before(1).blocks # <<>>

C3_Witness ==
  /\ C3_Case
  /\ Len(Before(1).blocks) = 2
  /\ Len(blocks[1]) >= 2
  /\ \E e \in 1..Len(Last(blocks[1]).b) : Last(blocks[1]).b[e].t = "Block"

RECURSIVE InOrder(_, _, _)
InOrder(elems, vm, d) ==
  IF elems = <<>> THEN vm
  ELSE IF vm.err # NoErr THEN vm
  ELSE InOrder(Tail(elems), eval(Head(elems), vm, d), d)

IsLiteralBlock(v) == v.t = "Block" /\ \A i \in 1..Len(v.b) : v.b[i].t = "Num"

\* the Vm in which the last word, if, found its three Blocks, without them
C4_Base == [Before(1) EXCEPT !.stack = SubSeq(@, 1, Len(@) - 3)]
C4_Cond  == Before(1).stack[Len(Before(1).stack) - 2]
C4_True  == Before(1).stack[Len(Before(1).stack) - 1]
C4_False == Before(1).stack[Len(Before(1).stack)]
\* the Vm after the elements of cond have been evaluated
C4_AfterCond == InOrder(C4_Cond.b, C4_Base, MaxDepth - 1)

\* the last word was if, naming its built-in at block depth zero, with three
\* Blocks on top of the stack, and cond left a Number on top
C4_Case ==
  /\ Ran(1)
  /\ LastWord(1) = wIf
  /\ Ready(Before(1))
  /\ IsBuiltin(Before(1), wIf)
  /\ Len(Before(1).stack) >= 3
  /\ C4_Cond.t = "Block" /\ C4_True.t = "Block" /\ C4_False.t = "Block"
  /\ C4_AfterCond.err = NoErr
  /\ C4_AfterCond.stack # <<>>
  /\ Last(C4_AfterCond.stack).t = "Num"

\* C4: if removes its three Blocks, evaluates the elements of cond in order,
\* pops the resulting top Number as the decision and evaluates the elements
\* of exactly one branch: the true branch for any nonzero decision, negative
\* ones included, the false branch for 0.  Neither the Blocks nor the
\* decision remain.
C4_If ==
  C4_Case =>
    LET decision == Last(C4_AfterCond.stack).n
        branch == IF decision # 0 THEN C4_True ELSE C4_False
    IN /\ Cur = InOrder(branch.b, PopStack(C4_AfterCond), MaxDepth - 1)
       /\ ( IsLiteralBlock(C4_Cond) /\ IsLiteralBlock(C4_True) /\ IsLiteralBlock(C4_False) ) =>
            /\ stack = C4_Base.stack \o Front(C4_Cond.b) \o branch.b
            /\ vars = Before(1).vars
            /\ err = NoErr

\* an if has run whose decision was negative, with a value left under it
C4_Witness ==
  /\ C4_Case
  /\ Last(C4_AfterCond.stack).n < 0
  /\ Len(C4_Cond.b) = 2
  /\ err = NoErr

(***************************************************************************)
(* C5  invoking a name bound to a Block                                    *)
(***************************************************************************)
\* the last word was an Operator whose name is bound to a Block, read at
\* block depth zero, and the process stack was not exhausted
C5_Case ==
  /\ Ran(1)
  /\ IsOpWord(LastWord(1))
  /\ Ready(Before(1))
  /\ LastWord(1) \in DOMAIN Before(1).vars
  /\ Before(1).vars[LastWord(1)].t = "Block"
  /\ err # StackOverflow

\* C5: invoking a name bound to a Block leaves the state that evaluating the
\* Block's elements one by one at block depth zero, in place of the name,
\* leaves.
C5_BoundBlock ==
  C5_Case => Cur = InOrder(Before(1).vars[LastWord(1)].b, Before(1), MaxDepth)

\* a bound Block of two elements has run against a non-empty stack
C5_Witness ==
  /\ C5_Case
  /\ Len(Before(1).vars[LastWord(1)].b) = 2
  /\ Before(1).stack # <<>>
  /\ err = NoErr
  /\ stack # Before(1).stack

(***************************************************************************)
(* C6  binding round-trip                                                  *)
(***************************************************************************)
\* the three words starting k words back were /n v def, n a name that
\* classifies as an Operator word and v a Number, read at block depth zero
\* with def naming its built-in
C6_Defined(k) ==
  /\ Ran(k)
  /\ IsValueWord(LastWord(k))
  /\ Head(LastWord(k)) = "/"
  /\ IsOpWord(Tail(LastWord(k)))
  /\ IsNumWord(LastWord(k - 1))
  /\ LastWord(k - 2) = wDef
  /\ Ready(Before(k))
  /\ IsBuiltin(Before(k), wDef)

\* C6: /n v def at block depth zero leaves the operand stack as it was, and a
\* later word n pushes exactly the one Number v.
C6_RoundTrip ==
  /\ C6_Defined(3) =>
       /\ stack = Before(3).stack
       /\ err = NoErr
       /\ blocks = <<>>
       /\ Tail(LastWord(3)) \in DOMAIN vars
       /\ vars[Tail(LastWord(3))] = Num(ParseI32(LastWord(2)).val)
  /\ (C6_Defined(4) /\ LastWord(1) = Tail(LastWord(4))) =>
       /\ stack = Append(Before(4).stack, Num(ParseI32(LastWord(3)).val))
       /\ err = NoErr
  /\ ( /\ Ran(1)
       /\ IsOpWord(LastWord(1))
       /\ Ready(Before(1))
       /\ LastWord(1) \in DOMAIN Before(1).vars
       /\ Before(1).vars[LastWord(1)].t = "Num" ) =>
       /\ stack = Append(Before(1).stack, Before(1).vars[LastWord(1)])
       /\ vars = Before(1).vars
       /\ err = NoErr

\* the name of a built-in has been bound to a Number and then used
C6_Witness ==
  /\ C6_Defined(4)
  /\ LastWord(1) = Tail(LastWord(4))
  /\ LastWord(1) \in BuiltinNames
  /\ stack = <<Num(5)>>

(***************************************************************************)
(* C7  unbound name                                                        *)
(***************************************************************************)
\* C7: evaluating an Operator word whose name has no binding, at block depth
\* zero, is a fatal UndefinedName failure; it does not complete silently.
C7_UndefinedName ==
  ( /\ Ran(1)
    /\ IsOpWord(LastWord(1))
    /\ Ready(Before(1))
    /\ LastWord(1) \notin DOMAIN Before(1).vars ) =>
    err = UndefinedName

(***************************************************************************)
(* C8  persistence across lines                                            *)
(***************************************************************************)
\* the non-empty words of a line, read off the text: the maximal stretches
\* of characters other than the separator, in order
Tokens(line) ==
  LET starts == {i \in 1..Len(line) :
                   line[i] # " " /\ (i = 1 \/ line[i - 1] = " ")}
      start(k) == CHOOSE i \in starts : Cardinality({h \in starts : h < i}) = k - 1
      stop(i) == IF \E j \in i..Len(line) : line[j] = " "
                   THEN (CHOOSE j \in i..Len(line) :
                           line[j] = " " /\ \A h \in i..(j - 1) : line[h] # " ") - 1
                   ELSE Len(line)
  IN [k \in 1..Cardinality(starts) |-> SubSeq(line, start(k), stop(start(k)))]

\* the non-empty words of the lines, whatever the division into lines
RECURSIVE AllTokens(_)
AllTokens(lines) ==
  IF lines = <<>> THEN <<>> ELSE AllTokens(Front(lines)) \o Tokens(Last(lines))

NonEmpty(ws) == SelectSeq(ws, LAMBDA w : w # <<>>)

\* the words ws[lo..hi] processed one after the other by one machine, which
\* stops at its first failure
RECURSIVE RunRange(_, _, _, _)
RunRange(ws, lo, hi, vm) ==
  IF lo > hi THEN vm
  ELSE IF lo = hi THEN (IF vm.err # NoErr THEN vm ELSE parse_word(ws[lo], vm))
  ELSE RunRange(ws, ((lo + hi) \div 2) + 1, hi, RunRange(ws, lo, (lo + hi) \div 2, vm))

\* the non-empty words processed so far: those of the lines read, less those
\* of the current line still to come
C8_Processed ==
  LET all == AllTokens(read)
  IN SubSeq(all, 1, Len(all) - Len(NonEmpty(words)))

\* C8: the operand stack, the bindings and the block-accumulator stack depend
\* only on the sequence of non-empty words processed, not on the division into
\* lines nor on repeated or trailing separators; an empty word is a no-op in
\* every state.
C8_Persistence ==
  /\ LET ws == C8_Processed
     IN Cur = RunRange(ws, 1, Len(ws), Vm_new)
  /\ (Ran(1) /\ LastWord(1) = <<>>) => Cur = Before(1)

\* a block opened on the first line has been closed on the second, with
\* empty words in between, and pushed
C8_Witness ==
  /\ Len(read) = 2
  /\ Cardinality({i \in 1..Len(read[1]) : read[1][i] = "{"})
       > Cardinality({i \in 1..Len(read[1]) : read[1][i] = "}"})
  /\ \E i \in 1..Len(trace) : trace[i] = <<>>
  /\ LastWord(1) = wClose
  /\ blocks = <<>>
  /\ err = NoErr
  /\ Last(stack).t = "Block"

\* a name bound on one line has been resolved on a later line
C8_WitnessBinding ==
  /\ Len(read) >= 2
  /\ words = <<>>
  /\ Tokens(Last(read)) = <<wX>>
  /\ wX \in DOMAIN vars
  /\ stack # <<>>
  /\ Last(stack) = vars[wX]

(***************************************************************************)
(* C9  block-close with no open block                                      *)
(***************************************************************************)
C9_Case == Ran(1) /\ LastWord(1) = wClose /\ Before(1).err = NoErr /\ Before(1).blocks = <<>>

\* C9: a block-close marker processed while the block-accumulator stack is
\* empty is a fatal MalformedBlock failure, of a kind other than
\* StackUnderflow and UndefinedName, and pushes nothing on the operand stack.
C9_MalformedBlock ==
  C9_Case =>
    /\ err = MalformedBlock
    /\ err \notin {StackUnderflow, UndefinedName, NoErr}
    /\ stack = Before(1).stack
    /\ vars = Before(1).vars
    /\ blocks = <<>>

\* a lone close marker has been processed with values on the operand stack
C9_Witness == C9_Case /\ Before(1).stack # <<>> /\ err = MalformedBlock

(***************************************************************************)
(* C10  pops of an empty operand stack                                     *)
(***************************************************************************)
AllBlocks(st) == \A i \in 1..Len(st) : st[i].t = "Block"

\* the native f, started on the operand stack of vm, comes to pop or read
\* the top of an empty stack
ReachesEmptyPop(f, vm) ==
  LET st == vm.stack
  IN CASE f \in {"add", "sub", "mul", "div", "lt"} ->
            st = <<>> \/ (Len(st) = 1 /\ st[1].t = "Num")
       [] f \in {"dup", "puts"} -> st = <<>>
       [] f \in {"exch", "op_def"} -> Len(st) <= 1
       [] f = "op_if" ->
            \/ Len(st) < 3 /\ AllBlocks(st)
            \/ /\ Len(st) = 3
               /\ AllBlocks(st)
               /\ LET after == InOrder(st[1].b, [vm EXCEPT !.stack = <<>>], MaxDepth - 1)
                  IN after.err = NoErr /\ after.stack = <<>>

\* the last word named a built-in operator at block depth zero
C10_Case ==
  /\ Ran(1)
  /\ IsOpWord(LastWord(1))
  /\ Ready(Before(1))
  /\ LastWord(1) \in BuiltinNames
  /\ IsBuiltin(Before(1), LastWord(1))
  /\ ReachesEmptyPop(NativeOf(LastWord(1)), Before(1))

\* C10: a built-in operator that comes to pop or read the top of an empty
\* operand stack, at its first or at a later pop, fails with StackUnderflow
\* and never completes.
C10_StackUnderflow ==
  /\ C10_Case => err = StackUnderflow
  /\ (Ready(Cur) /\ stack = <<>>) =>
       \A f \in {NativeOf(name) : name \in BuiltinNames} :
         CallNative(f, Cur, MaxDepth - 1).err = StackUnderflow

\* an if has popped for its decision after a condition Block that pushed nothing
C10_Witness ==
  /\ C10_Case
  /\ LastWord(1) = wIf
  /\ Len(Before(1).stack) = 3
  /\ err = StackUnderflow

(***************************************************************************)
(* C11  operands of the wrong variant                                      *)
(***************************************************************************)
\* the last word was name, read at block depth zero while name had its
\* built-in binding
Invoked(name) ==
  /\ Ran(1)
  /\ LastWord(1) = name
  /\ Ready(Before(1))
  /\ IsBuiltin(Before(1), name)

\* the stack less its k topmost values
Drop(st, k) == SubSeq(st, 1, Len(st) - k)

\* the number of pops after which an operator that pops up to n values of
\* variant t from st meets a value of another variant; 0 if it meets none
FirstWrong(st, n, t) ==
  LET wrong == {p \in 1..n : p <= Len(st) /\ st[Len(st) - p + 1].t # t}
  IN IF wrong = {} THEN 0 ELSE CHOOSE p \in wrong : \A q \in wrong : p <= q

\* the Vm is vm with k values popped, stopped by a TypeMismatch
MismatchAfter(now, vm, k) ==
  /\ now.err = TypeMismatch
  /\ now.stack = Drop(vm.stack, k)
  /\ now.vars = vm.vars
  /\ now.blocks = vm.blocks

\* an arithmetic operator or < has met a non-Number among its two operands
C11_ArithCase ==
  /\ \E op \in {wAdd, wSub, wMul, wDiv, wLt} : IsOpWord(op) /\ Invoked(op)
  /\ FirstWrong(Before(1).stack, 2, "Num") # 0

\* if has met a value that is not a Block among its three operands
C11_IfOperandCase ==
  /\ Invoked(wIf)
  /\ FirstWrong(Before(1).stack, 3, "Block") # 0

\* if has popped three Blocks and its condition left a value that is not a
\* Number on top
C11_IfResultCase ==
  /\ Invoked(wIf)
  /\ Len(Before(1).stack) >= 3
  /\ FirstWrong(Before(1).stack, 3, "Block") = 0
  /\ C4_AfterCond.err = NoErr
  /\ C4_AfterCond.stack # <<>>
  /\ Last(C4_AfterCond.stack).t # "Num"

\* def has found a value that is not a Symbol under the value to bind
C11_DefCase ==
  /\ Invoked(wDef)
  /\ Len(Before(1).stack) >= 2
  /\ Before(1).stack[Len(Before(1).stack) - 1].t # "Sym"

\* C11: an operand of the wrong variant is a fatal TypeMismatch: arithmetic
\* or < with a non-Number operand, if with a popped value that is not a Block
\* or with a condition result that is not a Number, def with a name operand
\* that is not a Symbol.  The operands popped so far are gone, no result
\* value is pushed, no branch is evaluated and no binding is inserted.
C11_TypeMismatch ==
  /\ C11_ArithCase =>
       MismatchAfter(Cur, Before(1), FirstWrong(Before(1).stack, 2, "Num"))
  /\ C11_IfOperandCase =>
       MismatchAfter(Cur, Before(1), FirstWrong(Before(1).stack, 3, "Block"))
  /\ C11_IfResultCase =>
       MismatchAfter(Cur, C4_AfterCond, 1)
  /\ C11_DefCase =>
       MismatchAfter(Cur, Before(1), 2)
  /\ (Ready(Cur) /\ FirstWrong(stack, 2, "Num") # 0) =>
       \A f \in {"add", "sub", "mul", "div", "lt"} :
         MismatchAfter(CallNative(f, Cur, MaxDepth - 1), Cur, FirstWrong(stack, 2, "Num"))

\* an if has failed on the Symbol its condition Block left
C11_Witness ==
  /\ C11_IfResultCase
  /\ Last(C4_AfterCond.stack).t = "Sym"
  /\ err = TypeMismatch

\* an addition has failed on a Block under a Number
C11_WitnessArith ==
  /\ C11_ArithCase
  /\ FirstWrong(Before(1).stack, 2, "Num") = 2
  /\ err = TypeMismatch

\* an if has failed on a Number in the place of its condition Block
C11_WitnessIfOperand ==
  /\ C11_IfOperandCase
  /\ FirstWrong(Before(1).stack, 3, "Block") = 3
  /\ err = TypeMismatch

\* a def has failed on a Number in the place of its name
C11_WitnessDef ==
  /\ C11_DefCase
  /\ Before(1).stack[Len(Before(1).stack) - 1].t = "Num"
  /\ vars = Vm_new.vars

(***************************************************************************)
(* C12  words inside an in-progress block                                  *)
(***************************************************************************)
\* the last word was non-empty and no block marker, and was read while a
\* block was in progress
C12_Case ==
  /\ Ran(1)
  /\ LastWord(1) \notin {<<>>, wOpen, wClose}
  /\ Before(1).err = NoErr
  /\ Before(1).blocks # <<>>

\* the Vm is vm with the value appended to its innermost in-progress sequence
AppendedTo(now, vm, value) ==
  /\ now.err = NoErr
  /\ now.stack = vm.stack
  /\ now.vars = vm.vars
  /\ Len(now.blocks) = Len(vm.blocks)
  /\ Front(now.blocks) = Front(vm.blocks)
  /\ Last(now.blocks) = Append(Last(vm.blocks), value)

\* the classification of a word as Number, Symbol or Operator, read off the
\* word: all digits after an optional sign, else a leading "/", else the word
WordValue(w) ==
  IF IsNumWord(w) THEN Num(ParseI32(w).val)
  ELSE IF Head(w) = "/" THEN Sym(Tail(w))
  ELSE Op(w)

C12_WitnessNested ==
  /\ C12_Case
  /\ IsOpWord(LastWord(1))
  /\ LastWord(1) \notin DOMAIN vars
  /\ Len(blocks) >= 2
  /\ blocks[1] # <<>>
  /\ Last(Last(blocks)) = Op(LastWord(1))

\* the word U+3000 has been read while a block was in progress
C12_WitnessSkipped ==
  /\ C12_Case
  /\ LastWord(1) = wIdeographicSpace

(***************************************************************************)
(* C13  dup and exch                                                       *)
(***************************************************************************)
\* the last k words named the built-ins dup and exch only, at block depth
\* zero, and the first of them found at least n values on the operand stack
C13_Case(k, n) ==
  /\ Ran(k)
  /\ Ready(Before(k))
  /\ IsBuiltin(Before(k), wDup)
  /\ IsBuiltin(Before(k), wExch)
  /\ Len(Before(k).stack) >= n

\* C13: on a stack of at least two values exch changes only the order of the
\* top two, and exch twice restores the stack exactly; dup adds one copy of
\* the top value and changes nothing below; after dup, exch exch leaves the
\* stack as dup left it.  The bindings are unchanged throughout.
C13_DupExch ==
  /\ (C13_Case(1, 2) /\ LastWord(1) = wExch) =>
       LET st == Before(1).stack
       IN Cur = [Before(1) EXCEPT !.stack = Drop(st, 2) \o <<st[Len(st)], st[Len(st) - 1]>>]
  /\ (C13_Case(2, 2) /\ LastWord(2) = wExch /\ LastWord(1) = wExch) =>
       Cur = Before(2)
  /\ (C13_Case(1, 1) /\ LastWord(1) = wDup) =>
       Cur = [Before(1) EXCEPT !.stack = Append(@, Last(@))]
  /\ (C13_Case(3, 1) /\ LastWord(3) = wDup /\ LastWord(2) = wExch /\ LastWord(1) = wExch) =>
       Cur = [Before(3) EXCEPT !.stack = Append(@, Last(@))]
  /\ (Ready(Cur) /\ stack # <<>>) =>
       /\ dup(Cur) = [Cur EXCEPT !.stack = Append(@, Last(@))]
       /\ exch(exch(dup(Cur))) = dup(Cur)

\* exch exch has run on a stack whose top two values differ
C13_Witness ==
  /\ C13_Case(2, 2)
  /\ LastWord(2) = wExch
  /\ LastWord(1) = wExch
  /\ Before(2).stack[Len(Before(2).stack)] # Before(2).stack[Len(Before(2).stack) - 1]
  /\ Before(1).stack # Before(2).stack
  /\ Cur = Before(2)

\* dup has run on a Block with a value below it
C13_WitnessDup ==
  /\ C13_Case(1, 2)
  /\ LastWord(1) = wDup
  /\ Last(Before(1).stack).t = "Block"
  /\ Len(stack) = Len(Before(1).stack) + 1

(***************************************************************************)
(* C14  a b <                                                              *)
(***************************************************************************)
\* the last three words were a b <, read at block depth zero with < naming
\* its built-in
C14_Case ==
  /\ Ran(3)
  /\ IsNumWord(LastWord(3))
  /\ IsNumWord(LastWord(2))
  /\ LastWord(1) = wLt
  /\ Ready(Before(3))
  /\ IsBuiltin(Before(3), wLt)

\* C14: the words a b < at block depth zero on a stack S leave S followed by
\* the one Number 1 if a < b and 0 otherwise, a being lhs; the result is
\* always 0 or 1 and the bindings are unchanged.
C14_LessThan ==
  C14_Case =>
    LET a == ParseI32(LastWord(3)).val
        b == ParseI32(LastWord(2)).val
    IN /\ stack = Append(Before(3).stack, Num(IF a < b THEN 1 ELSE 0))
       /\ Last(stack).n \in {0, 1}
       /\ vars = Before(3).vars
       /\ blocks = <<>>
       /\ err = NoErr

\* a comparison of a smaller with a larger Number has pushed 1
C14_Witness ==
  /\ C14_Case
  /\ ParseI32(LastWord(3)).val < ParseI32(LastWord(2)).val
  /\ Last(stack) = Num(1)

\* a comparison of a larger with a smaller Number has pushed 0 on a
\* non-empty stack
C14_WitnessFalse ==
  /\ C14_Case
  /\ ParseI32(LastWord(3)).val > ParseI32(LastWord(2)).val
  /\ Before(3).stack # <<>>
  /\ Last(stack) = Num(0)

(***************************************************************************)
(* C15  fail-stop                                                          *)
(***************************************************************************)
\* the Vm after the k-th most recent word
After(k) == IF k = 1 THEN Cur ELSE Before(k - 1)

\* the k-th most recent word ended in a failure that the process signals
SignalledAt(k) == Ran(k) /\ After(k).err # NoErr

\* the k-th most recent word was an Operator word with no binding, evaluated
\* at block depth zero: the condition of the UndefinedName failure
UnboundAt(k) ==
  /\ Ran(k)
  /\ IsOpWord(LastWord(k))
  /\ Ready(Before(k))
  /\ LastWord(k) \notin DOMAIN Before(k).vars

\* C15: once a fatal failure has occurred (TypeMismatch, StackUnderflow,
\* UndefinedName, MalformedBlock, DivisionByZero) no later word is evaluated:
\* the operand stack and the bindings are for ever those the failure left.
C15_FailStop ==
  \A k \in 1..HistLen :
    (SignalledAt(k) \/ UnboundAt(k)) =>
      /\ stack = After(k).stack
      /\ vars = After(k).vars

\* the part of C15 that concerns the failures the process signals: the word
\* that failed is the last word processed, so nothing changes afterwards
C15_SignalledStop ==
  \A k \in 1..HistLen : SignalledAt(k) => k = 1 /\ ~ENABLED Next

\* a word has failed while the source had further lines to supply
C15_WitnessSignalled ==
  /\ SignalledAt(1)
  /\ nfree < MaxFree
  /\ stack # <<>>

(***************************************************************************)
(* C16  the frame of def                                                   *)
(***************************************************************************)
\* now is vm after a def that found a value on top of a Symbol: those two
\* values are gone, the name of the Symbol is bound to the value, and
\* nothing else has changed
Defined(now, vm) ==
  LET st    == vm.stack
      value == st[Len(st)]
      name  == st[Len(st) - 1].s
  IN /\ now.err = NoErr
     /\ now.blocks = vm.blocks
     /\ now.stack = Drop(st, 2)
     /\ DOMAIN now.vars = DOMAIN vm.vars \cup {name}
     /\ now.vars[name] = value
     /\ \A other \in DOMAIN vm.vars : other # name => now.vars[other] = vm.vars[other]

\* a value lies on top of a Symbol
ValueOnSymbol(st) == Len(st) >= 2 /\ st[Len(st) - 1].t = "Sym"

\* the last word was def, naming its built-in at block depth zero, with a
\* value on top of a Symbol
C16_Case == Invoked(wDef) /\ ValueOnSymbol(Before(1).stack)

\* C16: def with a value on top of a Symbol removes exactly those two values,
\* binds the Symbol's name to exactly that value, overwriting any earlier
\* binding, built-in ones included, and changes no other binding and nothing
\* below on the stack; a Block is bound as it is, none of its elements is
\* executed.
C16_DefFrame ==
  /\ C16_Case => Defined(Cur, Before(1))
  /\ (Ready(Cur) /\ ValueOnSymbol(stack)) => Defined(op_def(Cur, MaxDepth - 1), Cur)

\* a def has overwritten the binding of a built-in
C16_Witness ==
  /\ C16_Case
  /\ Before(1).stack[Len(Before(1).stack) - 1].s \in BuiltinNames
  /\ vars # Before(1).vars
  /\ err = NoErr

\* a def has bound a Block whose elements would have changed the stack
C16_WitnessBlock ==
  /\ C16_Case
  /\ Last(Before(1).stack).t = "Block"
  /\ Last(Before(1).stack).b # <<>>
  /\ stack = Drop(Before(1).stack, 2)

\* a value lies on top of a Symbol with further values below
C16_WitnessBelow ==
  /\ Ready(Cur)
  /\ ValueOnSymbol(stack)
  /\ Len(stack) >= 3

(***************************************************************************)
(* C17  termination                                                        *)
(***************************************************************************)
\* no name is bound to a Block
NoBlockBound(vm) == \A name \in DOMAIN vm.vars : vm.vars[name].t # "Block"

\* the number of occurrences of the Operator name in the values, at any
\* nesting of Blocks
RECURSIVE CountOp(_, _)
CountOp(values, name) ==
  IF values = <<>> THEN 0
  ELSE LET v == Head(values)
       IN (IF v.t = "Op" /\ v.s = name THEN 1
           ELSE IF v.t = "Block" THEN CountOp(v.b, name)
           ELSE 0) + CountOp(Tail(values), name)

\* a word has been processed in a run whose bindings held no Block before it
\* and hold none after it
C17_Case == Ran(1) /\ NoBlockBound(Before(1)) /\ NoBlockBound(Cur)

C17_WitnessLoop ==
  /\ C17_Case
  /\ Invoked(wIf)
  /\ CountOp(Before(1).stack, wDup) > 0
  /\ err = StackOverflow

(***************************************************************************)
(* C18  the range of Numbers                                               *)
(***************************************************************************)
\* every Number among the values, at any nesting of Blocks, is an i32
RECURSIVE InRange(_)
InRange(values) ==
  \A i \in 1..Len(values) :
    CASE values[i].t = "Num"   -> values[i].n >= I32Min /\ values[i].n <= I32Max
      [] values[i].t = "Block" -> InRange(values[i].b)
      [] OTHER                 -> TRUE

\* byte i (0 the lowest) of the two's-complement form of x
Byte(x, i) ==
  CASE i = 0 -> x % 256
    [] i = 1 -> (x \div 256) % 256
    [] i = 2 -> (x \div 65536) % 256
    [] i = 3 -> (x \div 16777216) % 256

\* r is a + b modulo 2^32, byte by byte with carries
AddCongruent(r, a, b) ==
  LET s0 == Byte(a, 0) + Byte(b, 0)
      s1 == Byte(a, 1) + Byte(b, 1) + (s0 \div 256)
      s2 == Byte(a, 2) + Byte(b, 2) + (s1 \div 256)
      s3 == Byte(a, 3) + Byte(b, 3) + (s2 \div 256)
  IN /\ Byte(r, 0) = s0 % 256
     /\ Byte(r, 1) = s1 % 256
     /\ Byte(r, 2) = s2 % 256
     /\ Byte(r, 3) = s3 % 256

\* r is a * b modulo 2^32, by long multiplication of the bytes
MulCongruent(r, a, b) ==
  LET s0 == Byte(a, 0) * Byte(b, 0)
      s1 == Byte(a, 0) * Byte(b, 1) + Byte(a, 1) * Byte(b, 0) + (s0 \div 256)
      s2 == Byte(a, 0) * Byte(b, 2) + Byte(a, 1) * Byte(b, 1) + Byte(a, 2) * Byte(b, 0)
              + (s1 \div 256)
      s3 == Byte(a, 0) * Byte(b, 3) + Byte(a, 1) * Byte(b, 2) + Byte(a, 2) * Byte(b, 1)
              + Byte(a, 3) * Byte(b, 0) + (s2 \div 256)
  IN /\ Byte(r, 0) = s0 % 256
     /\ Byte(r, 1) = s1 % 256
     /\ Byte(r, 2) = s2 % 256
     /\ Byte(r, 3) = s3 % 256

\* r is the exact result of a op b reduced modulo 2^32
Congruent(op, r, a, b) ==
  CASE op = wAdd -> AddCongruent(r, a, b)
    [] op = wSub -> AddCongruent(a, r, b)
    [] op = wMul -> MulCongruent(r, a, b)

\* the last three words were a b op, op one of + - * naming its built-in at
\* block depth zero, and the exact result lies outside the i32 range
C18_Case ==
  /\ Ran(3)
  /\ IsNumWord(LastWord(3))
  /\ IsNumWord(LastWord(2))
  /\ LastWord(1) \in {wAdd, wSub, wMul}
  /\ Ready(Before(3))
  /\ IsBuiltin(Before(3), LastWord(1))
  /\ ~ExactFits(LastWord(1), ParseI32(LastWord(3)).val, ParseI32(LastWord(2)).val)

\* the two Numbers on top of the stack whose quotient is outside the range
C18_DivCase ==
  /\ Ready(Cur)
  /\ Len(stack) >= 2
  /\ stack[Len(stack) - 1] = Num(I32Min)
  /\ stack[Len(stack)] = Num(-1)

\* two Numbers are on top of the stack
C18_TopNums ==
  /\ Ready(Cur)
  /\ Len(stack) >= 2
  /\ stack[Len(stack) - 1].t = "Num"
  /\ stack[Len(stack)].t = "Num"

\* the words 2147483648, -2147483649 and 21474836470 are not Numbers
C18_BeyondRange ==
  /\ ~IsNumWord(Front(wI32Max) \o <<"8">>)
  /\ ~IsNumWord(Front(wI32Min) \o <<"9">>)
  /\ ~IsNumWord(wI32Max \o <<"0">>)

\* C18: every Number on the operand stack, in the bindings and inside a
\* Block, finished or in progress, lies in [-2^31, 2^31 - 1]; a word of
\* digits outside that range is no Number; an operation whose exact result
\* is outside the range either fails, pushing nothing, or pushes the result
\* reduced modulo 2^32, and -2^31 divided by -1 fails.
C18_Range ==
  /\ InRange(stack)
  /\ \A name \in DOMAIN vars : InRange(<<vars[name]>>)
  /\ \A i \in 1..Len(blocks) : InRange(blocks[i])
  /\ (Ran(1) /\ IsNumWord(LastWord(1))) =>
       LET n == ParseI32(LastWord(1)).val
       IN n >= I32Min /\ n <= I32Max
  /\ C18_BeyondRange
  /\ C18_Case =>
       \/ /\ err = Overflow
          /\ stack = Before(3).stack
          /\ vars = Before(3).vars
       \/ /\ err = NoErr
          /\ Len(stack) = Len(Before(3).stack) + 1
          /\ Front(stack) = Before(3).stack
          /\ Last(stack).t = "Num"
          /\ Congruent(LastWord(1), Last(stack).n,
                       ParseI32(LastWord(3)).val, ParseI32(LastWord(2)).val)
  /\ C18_DivCase => CallNative("div", Cur, MaxDepth - 1).err = Overflow
  /\ C18_TopNums =>
       \A op \in {wAdd, wSub, wMul} :
         LET out == CallNative(NativeOf(op), Cur, MaxDepth - 1)
         IN \/ /\ out.err = Overflow
               /\ ~ExactFits(op, stack[Len(stack) - 1].n, stack[Len(stack)].n)
            \/ /\ out.err = NoErr
               /\ out.stack[Len(out.stack)].t = "Num"
               /\ Congruent(op, out.stack[Len(out.stack)].n,
                            stack[Len(stack) - 1].n, stack[Len(stack)].n)

\* a multiplication beyond the range has pushed the product reduced modulo 2^32
C18_Witness ==
  /\ C18_Case
  /\ LastWord(1) = wMul
  /\ err = NoErr
  /\ Last(stack) = Num(-2)

\* an addition beyond the range has failed
C18_WitnessFail ==
  /\ C18_Case
  /\ LastWord(1) = wAdd
  /\ err = Overflow

\* an addition below the range has pushed the sum reduced modulo 2^32
C18_WitnessBelow ==
  /\ C18_Case
  /\ LastWord(1) = wAdd
  /\ ParseI32(LastWord(3)).val < 0
  /\ err = NoErr
  /\ Last(stack) = Num(I32Max)

\* the two Numbers on top of the stack have a difference beyond the range
C18_WitnessSub ==
  /\ C18_TopNums
  /\ ~SubFits(stack[Len(stack) - 1].n, stack[Len(stack)].n)

\* -2^31 and -1 are the two Numbers on top of the stack
C18_WitnessDiv == C18_DivCase

(***************************************************************************)
(* C19  where Operators and native procedures occur                        *)
(***************************************************************************)
\* the value is a Number, a Symbol or a Block
IsData(v) == v.t \in {"Num", "Sym", "Block"}

\* C19: no Operator and no native procedure is a direct element of the
\* operand stack; a native procedure is bound only as the initial binding of
\* a built-in name, and no binding holds an Operator, so every binding made
\* by def holds a Number, a Symbol or a Block; hence the eval inside def
\* pushes its argument back unchanged.
C19_NoOpOnStack ==
  /\ \A i \in 1..Len(stack) : IsData(stack[i])
  /\ \A name \in DOMAIN vars :
       \/ IsData(vars[name])
       \/ name \in BuiltinNames /\ vars[name] = Vm_new.vars[name]
  /\ (Invoked(wDef) /\ Before(1).stack # <<>>) =>
       eval(Last(Before(1).stack), PopStack(Before(1)), MaxDepth - 1) = Before(1)
  /\ (Ready(Cur) /\ stack # <<>>) =>
       eval(Last(stack), PopStack(Cur), MaxDepth - 1) = Cur

\* names have been bound by def to Numbers, and a Block holding Operators
\* lies on a further value on the operand stack
C19_Witness ==
  /\ \E name \in DOMAIN vars : name \notin BuiltinNames /\ vars[name].t = "Num"
  /\ Len(stack) >= 2
  /\ Last(stack).t = "Block"
  /\ \E i \in 1..Len(Last(stack).b) : Last(stack).b[i].t = "Op"
  /\ err = NoErr

\* a def has bound a Block holding an Operator
C19_WitnessDef ==
  /\ Invoked(wDef)
  /\ err = NoErr
  /\ Last(Before(1).stack).t = "Block"
  /\ \E i \in 1..Len(Last(Before(1).stack).b) : Last(Before(1).stack).b[i].t = "Op"

(***************************************************************************)
(* C20  the depth of the block stack                                       *)
(***************************************************************************)
\* the block-open markers processed less the block-close markers processed;
\* a block-close that failed for want of an open block closed nothing
C20_Markers ==
  MarkerDepth(Len(trace)) + (IF err = MalformedBlock THEN 1 ELSE 0)

\* the last word was handed to eval at block depth zero
C20_Evaluated ==
  /\ Ran(1)
  /\ Ready(Before(1))
  /\ IsValueWord(LastWord(1))

\* C20: the depth of the block stack is the number of block-open markers
\* less the number of block-close markers processed and is never negative;
\* a word that is no marker leaves it as it is, whatever the word evaluates,
\* so an operator, a bound Block or a branch of if, evaluated at depth zero,
\* runs and ends at depth zero with nothing deferred into a block.
C20_BlockDepth ==
  /\ Len(blocks) = C20_Markers
  /\ C20_Markers >= 0
  /\ (Ran(1) /\ LastWord(1) \notin {wOpen, wClose}) =>
       Len(blocks) = Len(Before(1).blocks)
  /\ (Ran(1) /\ LastWord(1) = wOpen) =>
       Len(blocks) = Len(Before(1).blocks) + 1
  /\ (Ran(1) /\ LastWord(1) = wClose /\ Before(1).blocks # <<>>) =>
       Len(blocks) = Len(Before(1).blocks) - 1
  /\ C20_Evaluated => blocks = <<>>
  /\ (Ready(Cur) /\ stack # <<>>) =>
       \A f \in {NativeOf(name) : name \in BuiltinNames} :
         CallNative(f, Cur, MaxDepth - 1).blocks = <<>>

\* an if has run its Blocks at depth zero after three pairs of markers
C20_Witness ==
  /\ C20_Evaluated
  /\ Invoked(wIf)
  /\ Cardinality({i \in 1..Len(trace) : trace[i] = wClose}) = 3
  /\ err = NoErr
  /\ stack # <<>>

\* three blocks are in progress, one inside the other
C20_WitnessNested == Len(blocks) = 3 /\ err = NoErr

\* a name bound to a Block has run at depth zero
C20_WitnessBound ==
  /\ C20_Evaluated
  /\ LastWord(1) \in DOMAIN Before(1).vars
  /\ Before(1).vars[LastWord(1)].t = "Block"
  /\ err = NoErr

====
